---- MODULE Spec2Model ----
(***************************************************************************)
(* Model of the three duplicate-finder scripts of duplicate-asset-hash:    *)
(*   main.py, find-duplicates-to-text.py and find-duplicates-to-csv.py.    *)
(* Each script is one call of find_duplicates_of_image: the reference is   *)
(* hashed, the directory is walked and filtered, every candidate is        *)
(* compared with the reference, and the result is written to a file.       *)
(* The three scripts run on the same reference and the same directory,     *)
(* each with its own console and its own output file.                      *)
(* Paths and file names are sequences of one-character strings, so that    *)
(* os.path and re are modelled by what they compute.                       *)
(***************************************************************************)
EXTENDS Integers, Sequences, FiniteSets, TLC

VARIABLES reference, listing, prior, pc, image_files, idx, processed, duplicates, events, outfile

vars == <<reference, listing, prior, pc, image_files, idx, processed, duplicates, events, outfile>>

Scripts == {"main", "text", "csv"}

\* ---------------------------------------------------------------- bounds

\* Longest directory listing of the general specification.
MaxFiles == 3

\* Longest generated file stem of the file-name specification.
MaxStem == 3

\* ------------------------------------------------------- program constants

\* The similarity threshold written in the comparison.
Threshold == 5

\* The progress interval written in the progress test.
ProgressEvery == 10

\* Bits of a perceptual hash as the scripts request it (phash with its defaults).
HashBits == 64

\* -------------------------------------------------------------- characters

UpperCase == <<"A","B","C","D","E","F","G","H","I","J","K","L","M","N","O","P","Q","R","S","T","U","V","W","X","Y","Z">>

LowerCase == <<"a","b","c","d","e","f","g","h","i","j","k","l","m","n","o","p","q","r","s","t","u","v","w","x","y","z">>

\* str.lower() on one character.
lower_char(c) ==
    IF \E k \in 1..Len(UpperCase) : UpperCase[k] = c
    THEN LowerCase[CHOOSE k \in 1..Len(UpperCase) : UpperCase[k] = c]
    ELSE c

\* str.lower().
lower(s) == [k \in 1..Len(s) |-> lower_char(s[k])]

\* The positions of the character c in s.
positions(s, c) == {k \in 1..Len(s) : s[k] = c}

\* str.rfind(c), 1-based; 0 when c does not occur.
rfind(s, c) ==
    LET ks == positions(s, c) IN
    IF ks = {} THEN 0 ELSE CHOOSE k \in ks : \A m \in ks : m <= k

\* str.find(c), 1-based; 0 when c does not occur.
find(s, c) ==
    LET ks == positions(s, c) IN
    IF ks = {} THEN 0 ELSE CHOOSE k \in ks : \A m \in ks : k <= m

\* s[a..b] (1-based, inclusive), empty when b < a.
Slice(s, a, b) == IF b < a THEN << >> ELSE SubSeq(s, a, b)

\* The concatenation of a sequence of sequences.
RECURSIVE Concat(_)
Concat(ss) == IF ss = << >> THEN << >> ELSE Head(ss) \o Concat(Tail(ss))

\* sep.join(parts).
RECURSIVE join_str(_, _)
join_str(sep, parts) ==
    IF parts = << >> THEN << >>
    ELSE IF Len(parts) = 1 THEN parts[1]
    ELSE parts[1] \o sep \o join_str(sep, Tail(parts))

\* str.split(c): the pieces between the occurrences of the character c.
RECURSIVE split(_, _)
split(s, c) ==
    LET k == find(s, c) IN
    IF k = 0 THEN <<s>>
    ELSE <<Slice(s, 1, k - 1)>> \o split(Slice(s, k + 1, Len(s)), c)

\* ------------------------------------------------------------------ os.path

\* The working directory of the run.
cwd == <<"/", "w">>

\* os.path.join(root, file) on POSIX.
path_join(root, file) ==
    IF file # << >> /\ file[1] = "/" THEN file
    ELSE IF root = << >> \/ root[Len(root)] = "/" THEN root \o file
    ELSE root \o <<"/">> \o file

\* os.path.basename: what follows the last separator.
basename(p) == Slice(p, rfind(p, "/") + 1, Len(p))

\* os.path.splitext: the extension starts at the last dot of the last
\* component, unless only dots precede it there.
splitext(p) ==
    LET sepIndex == rfind(p, "/")
        dotIndex == rfind(p, ".")
    IN  IF dotIndex > sepIndex /\ \E k \in (sepIndex + 1)..(dotIndex - 1) : p[k] # "."
        THEN <<Slice(p, 1, dotIndex - 1), Slice(p, dotIndex, Len(p))>>
        ELSE <<p, << >> >>

\* The components os.path.normpath keeps: empty ones and "." go, ".." pops.
RECURSIVE norm_comps(_, _)
norm_comps(comps, acc) ==
    IF comps = << >> THEN acc
    ELSE LET c == Head(comps) IN
         IF c = << >> \/ c = <<".">> THEN norm_comps(Tail(comps), acc)
         ELSE IF c = <<".", ".">>
              THEN norm_comps(Tail(comps), IF acc = << >> THEN acc ELSE Slice(acc, 1, Len(acc) - 1))
              ELSE norm_comps(Tail(comps), Append(acc, c))

\* os.path.abspath: join with the working directory, then normalise.
abspath(p) ==
    LET full == IF p # << >> /\ p[1] = "/" THEN p ELSE path_join(cwd, p)
    IN  <<"/">> \o join_str(<<"/">>, norm_comps(split(full, "/"), << >>))

\* ------------------------------------------------------------------ re

\* extract_product_id falling back to the filename without its extension.
extract_product_id_stem(filename) ==
    LET k == find(filename, "_") IN
    IF k >= 2 THEN Slice(filename, 1, k - 1) ELSE splitext(filename)[1]

\* extract_product_id: re.match(r"^([^_]+)_", filename) takes the characters
\* before the first underscore when there is at least one; otherwise the
\* filename is returned whole.
extract_product_id(filename) ==
    LET k == find(filename, "_") IN
    IF k >= 2 THEN Slice(filename, 1, k - 1) ELSE filename

\* --------------------------------------------------------- PIL, imagehash

\* What a file holds: an image with the fingerprint phash computes from it,
\* or bytes that PIL cannot decode.
Image(size, bits) == [kind |-> "image", size |-> size, bits |-> bits]

Corrupt == [kind |-> "corrupt", size |-> 0, bits |-> {}]

\* Image.open followed by imagehash.phash raises on undecodable content.
Decodes(content) == content.kind = "image"

\* imagehash.phash(img): the fingerprint of a decoded image.
phash(content) == [size |-> content.size, bits |-> content.bits]

\* ImageHash.__sub__ raises TypeError when the two hashes differ in shape.
SubRaises(h1, h2) == h1.size # h2.size

\* ImageHash.__sub__: the number of positions at which the two hashes differ.
HashSub(h1, h2) == Cardinality((h1.bits \ h2.bits) \cup (h2.bits \ h1.bits))

\* ------------------------------------------------------------------ inputs

reference_image_path == <<"g","/","r","e","f",".","j","p","g">>

directory_path == <<".","/","g">>

sub_directory == <<".","/","g","/","s","u","b">>

image_extensions == {<<".","j","p","g">>, <<".","j","p","e","g">>, <<".","p","n","g">>, <<".","g","i","f">>, <<".","b","m","p">>, <<".","w","e","b","p">>}

\* The fingerprint of the reference image.
RefBits == {1, 2, 3}

\* A fingerprint at Hamming distance d from the reference: its first d bits flipped.
BitsAt(d) == (RefBits \ (1..d)) \cup ((1..d) \ RefBits)

Entry(root, file, content) == [root |-> root, file |-> file, content |-> content]

\* The file Image.open reads at a path of the walked directory.
content_at(path) ==
    listing[CHOOSE k \in 1..Len(listing) : path_join(listing[k].root, listing[k].file) = path].content

\* ------------------------------------------------------------------ events

\* A line printed or a file opened, in the order the script does it.
Event(ev, n, path) == [ev |-> ev, n |-> n, path |-> path]

\* An output file: absent, or present with its bytes.
Absent == [exists |-> FALSE, data |-> << >>]

File(data) == [exists |-> TRUE, data |-> data]

OldData == <<"o","l","d">>

NL == "\n"

CR == "\r"

QUOTE == "\""

output_file_path == <<"o","u","t">>

\* ------------------------------------------------------- shared plumbing

\* os.walk(directory_path) with the extension filter: the paths of the listed
\* files whose lower-cased extension is an image extension, in walk order.
WalkImages ==
    LET IsImage(e) == splitext(lower(e.file))[2] \in image_extensions
        images == SelectSeq(listing, IsImage)
    IN  [k \in 1..Len(images) |-> path_join(images[k].root, images[k].file)]

\* One script's variables after a step; the other scripts keep theirs.
Update(s, newpc, files, i, n, dups, evs, out) ==
    /\ pc' = [pc EXCEPT ![s] = newpc]
    /\ image_files' = [image_files EXCEPT ![s] = files]
    /\ idx' = [idx EXCEPT ![s] = i]
    /\ processed' = [processed EXCEPT ![s] = n]
    /\ duplicates' = [duplicates EXCEPT ![s] = dups]
    /\ events' = [events EXCEPT ![s] = events[s] \o evs]
    /\ outfile' = [outfile EXCEPT ![s] = out]
    /\ UNCHANGED <<reference, listing, prior>>

\* ------------------------------------------------------------------ main.py

\* MainStart opening the output file for writing before the reference is hashed.
MainStartOpensOutputFirst ==
    /\ pc["main"] = "start"
    /\ LET banner == <<Event("using", 0, reference_image_path), Event("scanning", 0, directory_path), Event("saving", 0, output_file_path), Event("open", 0, reference_image_path)>>
       IN  IF Decodes(reference)
           THEN Update("main", "scan", WalkImages, 1, 0, << >>, banner \o <<Event("ref_ok", 0, << >>), Event("found_files", Len(WalkImages), << >>)>>, File(<< >>))
           ELSE Update("main", "returned", << >>, 0, 0, << >>, banner \o <<Event("ref_failed", 0, << >>)>>, File(<< >>))

\* Lines 21-48: the banner, the reference hash (or the early return), the walk.
MainStart ==
    /\ pc["main"] = "start"
    /\ LET banner == <<Event("using", 0, reference_image_path), Event("scanning", 0, directory_path), Event("saving", 0, output_file_path), Event("open", 0, reference_image_path)>>
       IN  IF Decodes(reference)
           THEN Update("main", "scan", WalkImages, 1, 0, << >>, banner \o <<Event("ref_ok", 0, << >>), Event("found_files", Len(WalkImages), << >>)>>, outfile["main"])
           ELSE Update("main", "returned", << >>, 0, 0, << >>, banner \o <<Event("ref_failed", 0, << >>)>>, outfile["main"])

\* MainSimilar with the comparison made inclusive.
MainSimilarInclusive(reference_hash, img_hash) == HashSub(reference_hash, img_hash) <= Threshold

\* Line 62: the comparison with the threshold.
MainSimilar(reference_hash, img_hash) == HashSub(reference_hash, img_hash) < Threshold

\* Line 63: what a match appends.
MainRecord(file_path) == basename(file_path)

\* Line 68: the progress test.
MainProgressDue(n, total) == n % ProgressEvery = 0 \/ n = total

\* MainTry putting a match at the front of the list.
MainTryPrepends(file_path, dups) ==
    LET content == content_at(file_path)
        opened == <<Event("open", 0, file_path)>>
        failed == <<Event("error", 0, file_path)>>
    IN  IF ~Decodes(content) THEN [dups |-> dups, evs |-> opened \o failed]
        ELSE IF SubRaises(phash(reference), phash(content)) THEN [dups |-> dups, evs |-> opened \o failed]
        ELSE IF MainSimilar(phash(reference), phash(content))
             THEN [dups |-> <<MainRecord(file_path)>> \o dups, evs |-> opened]
             ELSE [dups |-> dups, evs |-> opened]

\* Lines 56-65: the try block on one candidate: the events it adds and the
\* duplicates after it.
MainTry(file_path, dups) ==
    LET content == content_at(file_path)
        opened == <<Event("open", 0, file_path)>>
        failed == <<Event("error", 0, file_path)>>
    IN  IF ~Decodes(content) THEN [dups |-> dups, evs |-> opened \o failed]
        ELSE IF SubRaises(phash(reference), phash(content)) THEN [dups |-> dups, evs |-> opened \o failed]
        ELSE IF MainSimilar(phash(reference), phash(content))
             THEN [dups |-> Append(dups, MainRecord(file_path)), evs |-> opened]
             ELSE [dups |-> dups, evs |-> opened]

\* MainSkips comparing the paths as given, not their absolute forms.
MainSkipsAsGiven(file_path) == file_path = reference_image_path

\* Lines 52-54: the reference itself is counted and skipped.
MainSkips(file_path) == abspath(file_path) = abspath(reference_image_path)

\* MainIterate without the except clause: a candidate that fails to decode
\* ends the script with a traceback.
MainIterateUnguarded ==
    /\ pc["main"] = "scan"
    /\ idx["main"] <= Len(image_files["main"])
    /\ LET file_path == image_files["main"][idx["main"]]
           n == processed["main"] + 1
           total == Len(image_files["main"])
           r == MainTry(file_path, duplicates["main"])
       IN  IF MainSkips(file_path)
           THEN Update("main", "scan", image_files["main"], idx["main"] + 1, n, duplicates["main"], << >>, outfile["main"])
           ELSE IF ~Decodes(content_at(file_path))
           THEN Update("main", "crashed", image_files["main"], idx["main"], processed["main"], duplicates["main"], <<Event("open", 0, file_path)>>, outfile["main"])
           ELSE Update("main", "scan", image_files["main"], idx["main"] + 1, n, r.dups,
                       r.evs \o (IF MainProgressDue(n, total) THEN <<Event("progress", n, << >>)>> ELSE << >>),
                       outfile["main"])

\* MainIterate with an except clause that lets TypeError through: a length
\* mismatch in the comparison ends the script with a traceback.
MainIterateNarrowExcept ==
    /\ pc["main"] = "scan"
    /\ idx["main"] <= Len(image_files["main"])
    /\ LET file_path == image_files["main"][idx["main"]]
           n == processed["main"] + 1
           total == Len(image_files["main"])
           r == MainTry(file_path, duplicates["main"])
           content == content_at(file_path)
       IN  IF MainSkips(file_path)
           THEN Update("main", "scan", image_files["main"], idx["main"] + 1, n, duplicates["main"], << >>, outfile["main"])
           ELSE IF Decodes(content) /\ SubRaises(phash(reference), phash(content))
           THEN Update("main", "crashed", image_files["main"], idx["main"], processed["main"], duplicates["main"], <<Event("open", 0, file_path)>>, outfile["main"])
           ELSE Update("main", "scan", image_files["main"], idx["main"] + 1, n, r.dups,
                       r.evs \o (IF MainProgressDue(n, total) THEN <<Event("progress", n, << >>)>> ELSE << >>),
                       outfile["main"])

\* Lines 50-69: one iteration of the scan loop.
MainIterate ==
    /\ pc["main"] = "scan"
    /\ idx["main"] <= Len(image_files["main"])
    /\ LET file_path == image_files["main"][idx["main"]]
           n == processed["main"] + 1
           total == Len(image_files["main"])
           r == MainTry(file_path, duplicates["main"])
       IN  IF MainSkips(file_path)
           THEN Update("main", "scan", image_files["main"], idx["main"] + 1, n, duplicates["main"], << >>, outfile["main"])
           ELSE Update("main", "scan", image_files["main"], idx["main"] + 1, n, r.dups,
                       r.evs \o (IF MainProgressDue(n, total) THEN <<Event("progress", n, << >>)>> ELSE << >>),
                       outfile["main"])

\* Lines 83-84: the bytes written to the output file.
MainRender(dups) == join_str(<<NL>>, dups)

\* Lines 77-78: with no duplicates the output file is opened for writing and closed.
MainEmptyOutput == File(<< >>)

\* Lines 72-86: the summary, then the output file.
MainReport ==
    /\ pc["main"] = "scan"
    /\ idx["main"] > Len(image_files["main"])
    /\ LET dups == duplicates["main"] IN
       IF Len(dups) = 0
       THEN Update("main", "done", image_files["main"], idx["main"], processed["main"], dups,
                   <<Event("results", 0, << >>), Event("none", 0, << >>), Event("write", 0, output_file_path)>>,
                   MainEmptyOutput)
       ELSE Update("main", "done", image_files["main"], idx["main"], processed["main"], dups,
                   <<Event("results", 0, << >>), Event("found", Len(dups), << >>), Event("write", 0, output_file_path), Event("saved", 0, output_file_path)>>,
                   File(MainRender(dups)))

\* ------------------------------------------------------------------ find-duplicates-to-text.py

\* Lines 20-47: the banner, the reference hash (or the early return), the walk.
TextStart ==
    /\ pc["text"] = "start"
    /\ LET banner == <<Event("using", 0, reference_image_path), Event("scanning", 0, directory_path), Event("saving", 0, output_file_path), Event("open", 0, reference_image_path)>>
       IN  IF Decodes(reference)
           THEN Update("text", "scan", WalkImages, 1, 0, << >>, banner \o <<Event("ref_ok", 0, << >>), Event("found_files", Len(WalkImages), << >>)>>, outfile["text"])
           ELSE Update("text", "returned", << >>, 0, 0, << >>, banner \o <<Event("ref_failed", 0, << >>)>>, outfile["text"])

\* Line 61: the comparison with the threshold.
TextSimilar(reference_hash, img_hash) == HashSub(reference_hash, img_hash) < Threshold

\* Line 62: what a match appends.
TextRecord(file_path) == basename(file_path)

\* Line 68: the progress test.
TextProgressDue(n, total) == n % ProgressEvery = 0 \/ n = total

\* Lines 55-64: the try block on one candidate: the events it adds and the
\* duplicates after it.
TextTry(file_path, dups) ==
    LET content == content_at(file_path)
        opened == <<Event("open", 0, file_path)>>
        failed == <<Event("error", 0, file_path)>>
    IN  IF ~Decodes(content) THEN [dups |-> dups, evs |-> opened \o failed]
        ELSE IF SubRaises(phash(reference), phash(content)) THEN [dups |-> dups, evs |-> opened \o failed]
        ELSE IF TextSimilar(phash(reference), phash(content))
             THEN [dups |-> Append(dups, TextRecord(file_path)), evs |-> opened]
             ELSE [dups |-> dups, evs |-> opened]

\* Lines 51-53: the reference itself is counted and skipped.
TextSkips(file_path) == abspath(file_path) = abspath(reference_image_path)

\* Lines 49-69: one iteration of the scan loop.
TextIterate ==
    /\ pc["text"] = "scan"
    /\ idx["text"] <= Len(image_files["text"])
    /\ LET file_path == image_files["text"][idx["text"]]
           n == processed["text"] + 1
           total == Len(image_files["text"])
           r == TextTry(file_path, duplicates["text"])
       IN  IF TextSkips(file_path)
           THEN Update("text", "scan", image_files["text"], idx["text"] + 1, n, duplicates["text"], << >>, outfile["text"])
           ELSE Update("text", "scan", image_files["text"], idx["text"] + 1, n, r.dups,
                       r.evs \o (IF TextProgressDue(n, total) THEN <<Event("progress", n, << >>)>> ELSE << >>),
                       outfile["text"])

\* Lines 83-84: the bytes written to the output file.
TextRender(dups) == join_str(<<NL>>, dups)

\* Lines 77-78: with no duplicates the output file is opened for writing and closed.
TextEmptyOutput == File(<< >>)

\* Lines 72-86: the summary, then the output file.
TextReport ==
    /\ pc["text"] = "scan"
    /\ idx["text"] > Len(image_files["text"])
    /\ LET dups == duplicates["text"] IN
       IF Len(dups) = 0
       THEN Update("text", "done", image_files["text"], idx["text"], processed["text"], dups,
                   <<Event("results", 0, << >>), Event("none", 0, << >>), Event("write", 0, output_file_path)>>,
                   TextEmptyOutput)
       ELSE Update("text", "done", image_files["text"], idx["text"], processed["text"], dups,
                   <<Event("results", 0, << >>), Event("found", Len(dups), << >>), Event("write", 0, output_file_path), Event("saved", 0, output_file_path)>>,
                   File(TextRender(dups)))

\* ------------------------------------------------------------------ find-duplicates-to-csv.py

\* Lines 30-55: the banner, the reference hash (or the early return), the walk.
CsvStart ==
    /\ pc["csv"] = "start"
    /\ LET banner == <<Event("using", 0, reference_image_path), Event("scanning", 0, directory_path), Event("saving", 0, output_file_path), Event("open", 0, reference_image_path)>>
       IN  IF Decodes(reference)
           THEN Update("csv", "scan", WalkImages, 1, 0, << >>, banner \o <<Event("ref_ok", 0, << >>), Event("found_files", Len(WalkImages), << >>)>>, outfile["csv"])
           ELSE Update("csv", "returned", << >>, 0, 0, << >>, banner \o <<Event("ref_failed", 0, << >>)>>, outfile["csv"])

\* Line 68: the comparison with the threshold.
CsvSimilar(reference_hash, img_hash) == HashSub(reference_hash, img_hash) < Threshold

\* CsvRecord keeping the walked path as the filename.
CsvRecordFullPath(file_path) ==
    LET filename == basename(file_path)
        asset_id == splitext(filename)[1]
        product_id == extract_product_id(filename)
    IN  <<product_id, asset_id, file_path>>

\* Lines 69-74: what a match appends: product id, asset id, filename.
CsvRecord(file_path) ==
    LET filename == basename(file_path)
        asset_id == splitext(filename)[1]
        product_id == extract_product_id(filename)
    IN  <<product_id, asset_id, filename>>

\* Line 80: the progress test.
CsvProgressDue(n, total) == n % ProgressEvery = 0 \/ n = total

\* Lines 63-76: the try block on one candidate: the events it adds and the
\* duplicates after it.
CsvTry(file_path, dups) ==
    LET content == content_at(file_path)
        opened == <<Event("open", 0, file_path)>>
        failed == <<Event("error", 0, file_path)>>
    IN  IF ~Decodes(content) THEN [dups |-> dups, evs |-> opened \o failed]
        ELSE IF SubRaises(phash(reference), phash(content)) THEN [dups |-> dups, evs |-> opened \o failed]
        ELSE IF CsvSimilar(phash(reference), phash(content))
             THEN [dups |-> Append(dups, CsvRecord(file_path)), evs |-> opened]
             ELSE [dups |-> dups, evs |-> opened]

\* Lines 59-61: the reference itself is counted and skipped.
CsvSkips(file_path) == abspath(file_path) = abspath(reference_image_path)

\* Lines 57-81: one iteration of the scan loop.
CsvIterate ==
    /\ pc["csv"] = "scan"
    /\ idx["csv"] <= Len(image_files["csv"])
    /\ LET file_path == image_files["csv"][idx["csv"]]
           n == processed["csv"] + 1
           total == Len(image_files["csv"])
           r == CsvTry(file_path, duplicates["csv"])
       IN  IF CsvSkips(file_path)
           THEN Update("csv", "scan", image_files["csv"], idx["csv"] + 1, n, duplicates["csv"], << >>, outfile["csv"])
           ELSE Update("csv", "scan", image_files["csv"], idx["csv"] + 1, n, r.dups,
                       r.evs \o (IF CsvProgressDue(n, total) THEN <<Event("progress", n, << >>)>> ELSE << >>),
                       outfile["csv"])

\* csv.writer, excel dialect: a field holding a delimiter, a quote or a line
\* break is quoted, its quotes doubled.
csv_field(f) ==
    LET special == {",", QUOTE, CR, NL}
        doubled == Concat([k \in 1..Len(f) |-> IF f[k] = QUOTE THEN <<QUOTE, QUOTE>> ELSE <<f[k]>>])
    IN  IF \E k \in 1..Len(f) : f[k] \in special
        THEN <<QUOTE>> \o doubled \o <<QUOTE>>
        ELSE f

\* csv.writer.writerow: the fields joined by commas, ended by CR LF.
csv_row(fields) == join_str(<<",">>, [k \in 1..Len(fields) |-> csv_field(fields[k])]) \o <<CR, NL>>

csv_header == <<<<"P","r","o","d","u","c","t"," ","I","D">>, <<"A","s","s","e","t"," ","I","D">>, <<"F","i","l","e","n","a","m","e">>>>

\* Lines 94-97: the header row, then one row per duplicate.
CsvRender(dups) == csv_row(csv_header) \o Concat([k \in 1..Len(dups) |-> csv_row(dups[k])])

\* CsvEmptyOutput leaving the output file as it was.
CsvEmptyUntouched == outfile["csv"]

\* Line 89: with no duplicates the output file is opened for writing and closed.
CsvEmptyOutput == File(<< >>)

\* Lines 84-99: the summary, then the output file.
CsvReport ==
    /\ pc["csv"] = "scan"
    /\ idx["csv"] > Len(image_files["csv"])
    /\ LET dups == duplicates["csv"] IN
       IF dups = << >>
       THEN Update("csv", "done", image_files["csv"], idx["csv"], processed["csv"], dups,
                   <<Event("results", 0, << >>), Event("none", 0, << >>), Event("write", 0, output_file_path)>>,
                   CsvEmptyOutput)
       ELSE Update("csv", "done", image_files["csv"], idx["csv"], processed["csv"], dups,
                   <<Event("results", 0, << >>), Event("found", Len(dups), << >>), Event("write", 0, output_file_path), Event("saved", 0, output_file_path)>>,
                   File(CsvRender(dups)))

\* ------------------------------------------------------------ specifications

\* The files a walk of the directory may list, each with what it holds:
\* the reference itself, a near copy at distance Threshold - 1, an exact copy,
\* an exact copy in a sub-directory under the reference's own name, a file
\* PIL cannot decode (upper-case extension), an image at distance Threshold,
\* an image whose fingerprint has another shape than the reference's (the
\* subtraction raises TypeError), and a file that is not an image.
\* phash is called with its defaults on both sides, so the scripts themselves
\* always get HashBits bits; the odd-shaped fingerprint stands for a comparison
\* that raises inside the try block, which is what the except clause decides.
Universe ==
    { Entry(directory_path, <<"r","e","f",".","j","p","g">>, Image(HashBits, RefBits)),
      Entry(directory_path, <<"S","K","U","1","2","3","_","f","r","o","n","t","v","i","e","w",".","j","p","g">>, Image(HashBits, BitsAt(Threshold - 1))),
      Entry(directory_path, <<"n","o","U","n","d","e","r","s","c","o","r","e",".","p","n","g">>, Image(HashBits, RefBits)),
      Entry(sub_directory, <<"r","e","f",".","j","p","g">>, Image(HashBits, RefBits)),
      Entry(directory_path, <<"c","o","r","r","u","p","t",".","G","I","F">>, Corrupt),
      Entry(directory_path, <<"f","a","r",".","w","e","b","p">>, Image(HashBits, BitsAt(Threshold))),
      Entry(directory_path, <<"o","d","d",".","b","m","p">>, Image(HashBits \div 4, {})),
      Entry(directory_path, <<"n","o","t","e","s",".","t","x","t">>, Corrupt) }

\* The sequences of at most n distinct members of S.
InjSeqs(S, n) ==
    UNION { { f \in [1..k -> S] : \A a, b \in 1..k : a # b => f[a] # f[b] } : k \in 0..n }

\* The state before any script has run, for the given inputs.
InitWith(refs, listings, priors) ==
    /\ reference \in refs
    /\ listing \in listings
    /\ prior \in priors
    /\ pc = [s \in Scripts |-> "start"]
    /\ image_files = [s \in Scripts |-> << >>]
    /\ idx = [s \in Scripts |-> 0]
    /\ processed = [s \in Scripts |-> 0]
    /\ duplicates = [s \in Scripts |-> << >>]
    /\ events = [s \in Scripts |-> << >>]
    /\ outfile = [s \in Scripts |-> prior]

Init == InitWith({Image(HashBits, RefBits), Corrupt}, InjSeqs(Universe, MaxFiles), {Absent, File(OldData)})

\* The scripts are separate programs that share nothing but their inputs. The
\* model runs them side by side on the same inputs, one step each in rotation
\* (main.py, then the text script, then the CSV script), so that their states
\* can be compared step for step.
Order(s) == CASE s = "main" -> 1 [] s = "text" -> 2 [] s = "csv" -> 3

\* The steps a script has taken; a script that has ended has taken them all.
StepsTaken(s) ==
    CASE pc[s] = "start" -> 0
      [] pc[s] = "scan" -> idx[s]
      [] OTHER -> Len(listing) + 2

MayStep(s) ==
    \A t \in Scripts :
        /\ Order(t) < Order(s) => StepsTaken(t) > StepsTaken(s)
        /\ Order(t) > Order(s) => StepsTaken(t) >= StepsTaken(s)

Next ==
    \/ MayStep("main") /\ MainStart
    \/ MayStep("main") /\ MainIterate
    \/ MayStep("main") /\ MainReport
    \/ MayStep("text") /\ TextStart
    \/ MayStep("text") /\ TextIterate
    \/ MayStep("text") /\ TextReport
    \/ MayStep("csv") /\ CsvStart
    \/ MayStep("csv") /\ CsvIterate
    \/ MayStep("csv") /\ CsvReport

Spec == Init /\ [][Next]_vars

\* A directory holding one image at each Hamming distance from the reference.
InitThreshold ==
    InitWith({Image(HashBits, RefBits)},
             { <<Entry(directory_path, <<"n","o","U","n","d","e","r","s","c","o","r","e",".","p","n","g">>, Image(HashBits, BitsAt(d)))>> : d \in 0..HashBits },
             {Absent, File(OldData)})

SpecThreshold == InitThreshold /\ [][Next]_vars

\* The characters generated file stems are made of.
NameChars == {"a", "_", ".", ","}

Stems == UNION { [1..k -> NameChars] : k \in 0..MaxStem }

\* A directory holding one exact copy of the reference under a generated name.
InitNames ==
    InitWith({Image(HashBits, RefBits)},
             { <<Entry(directory_path, stem \o ext, Image(HashBits, RefBits))>> : stem \in Stems, ext \in {<<".","j","p","g">>, <<".","P","N","G">>} },
             {Absent})

SpecNames == InitNames /\ [][Next]_vars

\* ==================================================================== claims

\* The candidates a script has taken from image_files so far.
Consumed(s) == SubSeq(image_files[s], 1, idx[s] - 1)

\* The filename a record of a script's duplicates list carries.
FilenameOf(s, rec) == IF s = "csv" THEN rec[3] ELSE rec

\* The filenames of a script's duplicates list, in order.
Names(s) == [k \in 1..Len(duplicates[s]) |-> FilenameOf(s, duplicates[s][k])]

\* The candidate is the reference image itself.
IsReference(path) == abspath(path) = abspath(reference_image_path)

\* Opening or hashing the candidate raises.
FailsToDecode(path) == ~Decodes(content_at(path))

\* The candidate's fingerprint and the reference's differ in length.
LengthMismatch(path) == Decodes(content_at(path)) /\ content_at(path).size # reference.size

\* The candidate is decoded and compared, and is not the reference.
Compared(path) == ~IsReference(path) /\ Decodes(content_at(path)) /\ ~LengthMismatch(path)

\* The Hamming distance of a compared candidate to the reference.
Distance(path) ==
    LET a == reference.bits
        b == content_at(path).bits
    IN  Cardinality({k \in 1..HashBits : (k \in a) # (k \in b)})

\* The paths a script has opened with Image.open, in order.
Opened(s) ==
    LET IsOpen(e) == e.ev = "open"
        opens == SelectSeq(events[s], IsOpen)
    IN  [k \in 1..Len(opens) |-> opens[k].path]

\* The script has ended, by any way.
Ended(s) == pc[s] \notin {"start", "scan"}

\* C1: a candidate that is decoded and is not the reference is recorded as a
\* duplicate exactly when its Hamming distance to the reference is below 5,
\* for every distance from 0 to 64 and in all three scripts: distance 4 is
\* recorded, distance 5 is not.
C1_ThresholdStrict ==
    \A s \in Scripts :
        (pc[s] \in {"scan", "done"} /\ idx[s] = 2 /\ Compared(image_files[s][1])) =>
            LET d == Distance(image_files[s][1])
                recorded == Len(duplicates[s]) = 1
            IN  /\ d \in 0..64
                /\ recorded <=> d < 5
                /\ d = 4 => recorded
                /\ d = 5 => ~recorded

\* C1 witness: all three scripts have ended with the candidate at distance 4 recorded.
C1_Witness ==
    /\ \A s \in Scripts : pc[s] = "done" /\ Len(duplicates[s]) = 1
    /\ Len(listing) = 1
    /\ Distance(path_join(listing[1].root, listing[1].file)) = 4

\* C2: the step that takes the reference image itself from image_files adds
\* nothing to duplicates and opens no file: the candidate is skipped without
\* being decoded or compared, although its distance to the reference is 0.
C2_SelfSkipped ==
    [][\A s \in Scripts :
          (/\ pc[s] = "scan"
           /\ idx[s] <= Len(image_files[s])
           /\ idx'[s] = idx[s] + 1
           /\ IsReference(image_files[s][idx[s]]))
          => /\ duplicates'[s] = duplicates[s]
             /\ Opened(s)' = Opened(s)
             /\ Distance(image_files[s][idx[s]]) = 0]_vars

\* C2 witness: the reference was listed first and passed over, and a copy of
\* it listed later under the same filename was recorded.
C2_Witness ==
    /\ \A s \in Scripts : pc[s] = "done" /\ Len(image_files[s]) >= 2
    /\ IsReference(image_files["csv"][1])
    /\ Names("csv") = <<basename(reference_image_path)>>

\* The scan of a script folded over a candidate sequence: the duplicates it ends with.
RECURSIVE ScanOf(_, _, _)
ScanOf(s, files, dups) ==
    IF files = << >> THEN dups
    ELSE LET f == Head(files)
             after == CASE s = "main" -> IF MainSkips(f) THEN dups ELSE MainTry(f, dups).dups
                        [] s = "text" -> IF TextSkips(f) THEN dups ELSE TextTry(f, dups).dups
                        [] s = "csv" -> IF CsvSkips(f) THEN dups ELSE CsvTry(f, dups).dups
         IN  ScanOf(s, Tail(files), after)

\* The candidates of a sequence that decode.
WithoutFailing(files) == LET Ok(f) == ~FailsToDecode(f) IN SelectSeq(files, Ok)

\* C3: a candidate that fails to open or hash does not abort the scan: a script
\* that got past the reference ends by reporting, with every candidate taken
\* and every candidate but the reference opened, and its duplicates are those
\* of the same scan over the candidates with the failing ones removed.
C3_FailureIsolated ==
    \A s \in Scripts :
        (Ended(s) /\ Decodes(reference)) =>
            /\ pc[s] = "done"
            /\ idx[s] = Len(image_files[s]) + 1
            /\ processed[s] = Len(image_files[s])
            /\ LET NotRef(f) == ~IsReference(f)
               IN  Opened(s) = <<reference_image_path>> \o SelectSeq(image_files[s], NotRef)
            /\ duplicates[s] = ScanOf(s, WithoutFailing(image_files[s]), << >>)

\* C3 witness: the first candidate failed to decode and a later one was recorded.
C3_Witness ==
    /\ \A s \in Scripts : pc[s] = "done" /\ Len(duplicates[s]) >= 1
    /\ Len(image_files["main"]) = 3
    /\ FailsToDecode(image_files["main"][1])

\* The candidate matches: it is compared and its distance is below the threshold.
Matched(path) == Compared(path) /\ Distance(path) < Threshold

\* The rows of a CSV file whose fields hold no delimiter, quote or line break.
csv_rows_plain(data) ==
    LET lines == split(data, NL)
        Strip(l) == IF l # << >> /\ l[Len(l)] = CR THEN Slice(l, 1, Len(l) - 1) ELSE l
    IN  [k \in 1..(Len(lines) - 1) |-> split(Strip(lines[k]), ",")]

\* The lines of a text file.
text_lines(data) == IF data = << >> THEN << >> ELSE split(data, NL)

\* C4: the recorded duplicates are the filenames of the matching candidates
\* taken so far, in traversal order and one record per candidate; once the
\* script has reported, the lines (text) or the rows after the header (CSV)
\* of the output file are in that same order.
C4_TraversalOrder ==
    \A s \in Scripts :
        pc[s] \in {"scan", "done"} =>
            LET matches == SelectSeq(Consumed(s), Matched)
            IN  /\ Names(s) = [k \in 1..Len(matches) |-> basename(matches[k])]
                /\ (pc[s] = "done" /\ s # "csv") => text_lines(outfile[s].data) = Names(s)
                /\ (pc[s] = "done" /\ s = "csv" /\ matches # << >>) =>
                       csv_rows_plain(outfile[s].data) = <<csv_header>> \o duplicates[s]

\* C4 witness: two matching candidates with a non-matching one between them,
\* both recorded and written, first before second.
C4_Witness ==
    /\ \A s \in Scripts : pc[s] = "done" /\ Len(duplicates[s]) = 2
    /\ Len(image_files["text"]) = 3
    /\ ~Matched(image_files["text"][2])
    /\ Names("text")[1] # Names("text")[2]
    /\ text_lines(outfile["text"].data) = <<basename(image_files["text"][1]), basename(image_files["text"][3])>>

\* C5 as stated: with no duplicates the output file is created, header-only
\* in the CSV script and zero-byte in the text scripts.
C5_AsStated ==
    \A s \in Scripts :
        (pc[s] = "done" /\ duplicates[s] = << >>) =>
            /\ outfile[s].exists
            /\ s = "csv" => csv_rows_plain(outfile[s].data) = <<csv_header>>
            /\ s # "csv" => outfile[s].data = << >>

\* C5 as amended: whenever the reference is decoded and the scan ends with no
\* duplicates, the output file is created and is zero-byte in all three
\* scripts; the CSV script writes no header row in that case.
C5_ZeroMatchOutput ==
    \A s \in Scripts :
        (pc[s] = "done" /\ duplicates[s] = << >>) =>
            /\ Decodes(reference)
            /\ outfile[s].exists
            /\ outfile[s].data = << >>

\* C5 witness: no output file existed, the directory held only candidates that
\* do not match, and the CSV script has created an empty file.
C5_Witness ==
    /\ prior = Absent
    /\ pc["csv"] = "done"
    /\ Len(image_files["csv"]) = 3
    /\ duplicates["csv"] = << >>
    /\ outfile["csv"] = File(<< >>)

\* C6: when the reference cannot be opened or hashed the script returns at
\* once: the directory is not walked, no candidate is opened, and the output
\* file is neither created nor truncated.
C6_ReferenceFailureFatal ==
    \A s \in Scripts :
        (~Decodes(reference) /\ pc[s] # "start") =>
            /\ pc[s] = "returned"
            /\ image_files[s] = << >>
            /\ processed[s] = 0
            /\ Opened(s) = <<reference_image_path>>
            /\ \A k \in 1..Len(events[s]) : events[s][k].ev \notin {"found_files", "write", "progress", "results"}
            /\ outfile[s] = prior

\* C6 witness: the reference failed, the directory held files, an output file
\* existed, and all three scripts have returned leaving it as it was.
C6_Witness ==
    /\ ~Decodes(reference)
    /\ Len(listing) = 3
    /\ prior = File(OldData)
    /\ \A s \in Scripts : pc[s] = "returned" /\ outfile[s] = File(OldData)

\* The filename without its extension: what precedes the image extension it ends with.
StemOf(filename) ==
    CHOOSE stem \in {Slice(filename, 1, k) : k \in 0..Len(filename)} :
        \E e \in image_extensions : lower(filename) = lower(stem) \o e

\* The text before the first underscore of a filename that holds one.
LeadingToken(filename) == split(filename, "_")[1]

HasUnderscore(filename) == \E k \in 1..Len(filename) : filename[k] = "_"

\* C7 as stated: in a CSV record the asset id is the filename without its
\* extension, and the product id is the leading '_'-delimited token when the
\* filename holds an underscore and the filename without its extension otherwise.
C7_AsStated ==
    \A k \in 1..Len(duplicates["csv"]) :
        LET rec == duplicates["csv"][k]
            filename == rec[3]
        IN  /\ rec[2] = StemOf(filename)
            /\ rec[1] = IF HasUnderscore(filename) THEN LeadingToken(filename) ELSE StemOf(filename)

\* C7 as amended: the asset id is the filename without its extension; the
\* product id is the text before the first underscore when the filename holds
\* an underscore and does not begin with one, and otherwise the whole filename,
\* extension included.
C7_IdentifierExtraction ==
    \A k \in 1..Len(duplicates["csv"]) :
        LET rec == duplicates["csv"][k]
            filename == rec[3]
        IN  /\ rec[2] = StemOf(filename)
            /\ rec[1] = IF HasUnderscore(filename) /\ filename[1] # "_" THEN LeadingToken(filename) ELSE filename

\* C7 witness: a file without an underscore was recorded with its whole
\* filename as product id, which its asset id is not.
C7_Witness ==
    /\ pc["csv"] = "done"
    /\ Len(duplicates["csv"]) = 1
    /\ ~HasUnderscore(duplicates["csv"][1][3])
    /\ duplicates["csv"][1][1] = duplicates["csv"][1][3]
    /\ duplicates["csv"][1][2] # duplicates["csv"][1][1]

\* C8 as stated: a progress line is printed each time the processed counter
\* reaches a multiple of 10 and when it reaches len(image_files), whichever
\* candidate brings it there, the reference itself and failing candidates
\* included; and the results summary is printed before the output file is
\* opened for writing.
C8_ProgressReported ==
    \A s \in Scripts :
        pc[s] \in {"scan", "done"} =>
            /\ \A n \in 1..processed[s] :
                   (n % 10 = 0 \/ n = Len(image_files[s])) =>
                       \E k \in 1..Len(events[s]) : events[s][k].ev = "progress" /\ events[s][k].n = n
            /\ \A k \in 1..Len(events[s]) :
                   events[s][k].ev = "write" => \E j \in 1..(k - 1) : events[s][j].ev = "results"

C10_OneAlgorithm ==
    \A a, b \in Scripts :
        (pc[a] = pc[b] /\ idx[a] = idx[b]) =>
            /\ image_files[a] = image_files[b]
            /\ processed[a] = processed[b]
            /\ Names(a) = Names(b)
            /\ ({a, b} = {"main", "text"} => duplicates[a] = duplicates[b])

\* C10 witness: all three scripts are in mid-scan at the same step, two
\* candidates taken and one of them recorded.
C10_Witness ==
    /\ \A s \in Scripts : pc[s] = "scan" /\ idx[s] = 3 /\ Len(image_files[s]) = 3
    /\ processed["csv"] = 2
    /\ Len(duplicates["main"]) = 1
    /\ Names("csv") = duplicates["text"]

====
